---- MODULE Spec2Model ----
(***************************************************************************)
(* A model of wappylyzer.py: the rule corpus (parse_apps, parse_app,       *)
(* parse_patterns, iter_apps), the registration of detections              *)
(* (add_detected) and the detection pass (analyze and the seven            *)
(* analyze_* methods).                                                     *)
(*                                                                         *)
(* A Python str is a sequence of lexemes: <<"WordPress", " ", "5", ".",    *)
(* "9">> is the text "WordPress 5.9".  A regular expression source is a    *)
(* str whose lexemes are read as the regex syntax reads them: "(" ")" "|" *)
(* "." "+" "*" "*?" "^" "$", the escaped dot "\\.", the classes "[0-9.]"   *)
(* and "(window|document)", and "[^]" (ECMAScript's any-character class).  *)
(* Every other lexeme is a literal.  The fragment has top-level            *)
(* alternation and unnested, unquantified groups; the corpora below stay   *)
(* inside it.                                                              *)
(***************************************************************************)
EXTENDS Integers, Sequences, FiniteSets, TLC

----------------------------------------------------------------------------
(* Python helpers on str and list *)

S(x) == <<x>>

RECURSIVE Concat(_)
Concat(ss) ==
    IF ss = <<>> THEN <<>> ELSE Head(ss) \o Concat(Tail(ss))

Range(s) == {s[i] : i \in 1..Len(s)}

Contains(s, x) == \E i \in 1..Len(s) : s[i] = x

NoDuplicates(s) == \A i, j \in 1..Len(s) : s[i] = s[j] => i = j

(* str.lower(), lexeme by lexeme *)
LowerTok(t) ==
    CASE t = "Generator" -> "generator"
      [] t = "WordPress" -> "wordpress"
      [] t = "Window" -> "window"
      [] t = "Foo" -> "foo"
      [] OTHER -> t

lower(s) == [i \in 1..Len(s) |-> LowerTok(s[i])]

(* str.split(sep) for a one-lexeme separator: the list of the pieces *)
RECURSIVE split(_, _)
split(s, sep) ==
    IF \A i \in 1..Len(s) : s[i] # sep
    THEN <<s>>
    ELSE LET k == CHOOSE i \in 1..Len(s) :
                     s[i] = sep /\ \A j \in 1..(i - 1) : s[j] # sep
         IN  <<SubSeq(s, 1, k - 1)>> \o split(SubSeq(s, k + 1, Len(s)), sep)

(* sep.join(parts) *)
RECURSIVE join(_, _)
join(sep, parts) ==
    IF Len(parts) = 0 THEN <<>>
    ELSE IF Len(parts) = 1 THEN parts[1]
    ELSE parts[1] \o <<sep>> \o join(sep, Tail(parts))

(* str.replace(old, new) for one-lexeme old and new *)
replace(s, old, new) == [i \in 1..Len(s) |-> IF s[i] = old THEN new ELSE s[i]]

----------------------------------------------------------------------------
(* The re module on the fragment *)

Quantifiers == {"+", "*", "*?"}

(* what re.compile accepts: balanced parentheses, and no quantifier with *)
(* nothing to repeat                                                      *)
RECURSIVE Depth(_, _)
Depth(re, k) ==
    IF k = 0 THEN 0
    ELSE Depth(re, k - 1)
         + (IF re[k] = "(" THEN 1 ELSE IF re[k] = ")" THEN -1 ELSE 0)

Compiles(re) ==
    /\ \A k \in 1..Len(re) : Depth(re, k) >= 0
    /\ Depth(re, Len(re)) = 0
    /\ \A k \in 1..Len(re) :
           re[k] \in Quantifiers =>
               /\ k > 1
               /\ re[k - 1] \notin Quantifiers \cup {"(", "|", "^"}

(* the number of capture groups of a compiled pattern: len(m.groups()) *)
NGroups(re) == Cardinality({k \in 1..Len(re) : re[k] = "("})

ClassOf(tok) ==
    CASE tok = "[0-9.]" -> {"0", "1", "2", "5", "8", "9", "."}
      [] tok = "(window|document)" -> {"window", "document"}
      [] tok = "\\." -> {"."}
      [] OTHER -> {tok}

(* one atom against one lexeme; "." is any lexeme (re.DOTALL) *)
AtomOk(tok, ch, ic) ==
    \/ tok = "."
    \/ IF ic THEN LowerTok(ch) \in {LowerTok(c) : c \in ClassOf(tok)}
             ELSE ch \in ClassOf(tok)

NoMatch == [ok |-> FALSE, end |-> 0, gset |-> FALSE, gs |-> 0, ge |-> 0]

(* the longest run of lexemes from i that atom tok matches *)
RECURSIVE RunLen(_, _, _, _)
RunLen(tok, s, i, ic) ==
    IF i <= Len(s) /\ AtomOk(tok, s[i], ic)
    THEN 1 + RunLen(tok, s, i + 1, ic)
    ELSE 0

(* The backtracking matcher: branch re from atom k against s from i, g the *)
(* state of capture group 1.  The first success in the engine's order of   *)
(* preference is the match.                                                *)
RECURSIVE MatchFrom(_, _, _, _, _, _)
RECURSIVE TryCounts(_, _, _, _, _, _, _, _)
MatchFrom(re, k, s, i, g, ic) ==
    IF k > Len(re)
    THEN [ok |-> TRUE, end |-> i, gset |-> g.gset, gs |-> g.gs, ge |-> g.ge]
    ELSE LET tok == re[k]
             q == IF k < Len(re) /\ re[k + 1] \in Quantifiers
                  THEN re[k + 1] ELSE "" IN
         CASE tok = "(" ->
                  MatchFrom(re, k + 1, s, i, [gset |-> FALSE, gs |-> i, ge |-> i], ic)
           [] tok = ")" ->
                  MatchFrom(re, k + 1, s, i, [gset |-> TRUE, gs |-> g.gs, ge |-> i], ic)
           [] tok = "^" ->
                  IF i = 1 THEN MatchFrom(re, k + 1, s, i, g, ic) ELSE NoMatch
           [] tok = "$" ->
                  IF i = Len(s) + 1 \/ (i = Len(s) /\ s[i] = "\n")
                  THEN MatchFrom(re, k + 1, s, i, g, ic) ELSE NoMatch
           [] q # "" ->
                  LET n == RunLen(tok, s, i, ic)
                      lo == IF q = "+" THEN 1 ELSE 0 IN
                  IF n < lo THEN NoMatch
                  ELSE IF q = "*?"
                  THEN TryCounts(re, k, s, i, g, ic, lo, n)
                  ELSE TryCounts(re, k, s, i, g, ic, n, lo)
           [] OTHER ->
                  IF i <= Len(s) /\ AtomOk(tok, s[i], ic)
                  THEN MatchFrom(re, k + 1, s, i + 1, g, ic)
                  ELSE NoMatch

(* repeat counts from j to last, descending (greedy) or ascending (lazy) *)
TryCounts(re, k, s, i, g, ic, j, last) ==
    LET r == MatchFrom(re, k + 2, s, i + j, g, ic) IN
    IF r.ok \/ j = last THEN r
    ELSE IF j > last
         THEN TryCounts(re, k, s, i, g, ic, j - 1, last)
         ELSE TryCounts(re, k, s, i, g, ic, j + 1, last)

NoGroup == [gset |-> FALSE, gs |-> 0, ge |-> 0]

(* the alternatives of a pattern, in order, at position i *)
RECURSIVE FirstBranch(_, _, _, _)
FirstBranch(branches, s, i, ic) ==
    IF branches = <<>> THEN NoMatch
    ELSE LET r == MatchFrom(Head(branches), 1, s, i, NoGroup, ic) IN
         IF r.ok THEN r ELSE FirstBranch(Tail(branches), s, i, ic)

MatchAt(rx, s, i) == FirstBranch(split(rx.source, "|"), s, i, rx.ignorecase)

(* Pattern.match(s): anchored at the start of s *)
re_match(rx, s) == MatchAt(rx, s, 1)

(* Pattern.search(s): the leftmost position that matches *)
RECURSIVE SearchFrom(_, _, _)
SearchFrom(rx, s, i) ==
    IF i > Len(s) + 1 THEN NoMatch
    ELSE LET r == MatchAt(rx, s, i) IN
         IF r.ok THEN r ELSE SearchFrom(rx, s, i + 1)

re_search(rx, s) == SearchFrom(rx, s, 1)

(* m.groups()[0] of a successful match: the text group 1 captured *)
Group1(m, s) == SubSeq(s, m.gs, m.ge - 1)

(* compile_regex: "[^]" becomes ".", flags IGNORECASE (optional) and DOTALL; *)
(* a source that does not compile becomes ^$                                *)
compile_regex(regex_string, ignorecase) ==
    LET src == replace(regex_string, "[^]", ".") IN
    IF Compiles(src)
    THEN [source |-> src, ignorecase |-> ignorecase]
    ELSE [source |-> <<"^", "$">>, ignorecase |-> ignorecase]

----------------------------------------------------------------------------
(* Python values of the rule document: a str, a list of str, or a dict    *)
(* (its items in insertion order)                                         *)

PyStr(s) == [t |-> "str", v |-> s]
PyList(l) == [t |-> "list", v |-> l]
PyDict(items) == [t |-> "dict", v |-> items]

Item(k, v) == [k |-> k, v |-> v]

Keys(items) == [i \in 1..Len(items) |-> items[i].k]

HasKey(items, k) == \E i \in 1..Len(items) : items[i].k = k

Lookup(items, k) == items[CHOOSE i \in 1..Len(items) : items[i].k = k].v

(* bool(value) is False: "", [] and {} *)
Falsy(value) == Len(value.v) = 0

as_list(value) == IF value.t = "list" THEN value.v ELSE <<value.v>>

(* get_absolute_url: urljoin of every script URL on the request's URL *)
IsAbsolute(u) == Len(u) > 0 /\ u[1] \in {"http://", "https://"}

urljoin(base_url, u) == IF IsAbsolute(u) THEN u ELSE base_url \o u

get_absolute_url(base_url, urls) ==
    [i \in 1..Len(urls) |-> urljoin(base_url, urls[i])]

(* parse_app: the rule takes its name, and implies becomes a list *)
parse_app(app_name, app) ==
    [k \in DOMAIN app \cup {"name", "implies"} |->
        CASE k = "name" -> app_name
          [] k = "implies" ->
                 IF "implies" \in DOMAIN app
                 THEN IF app["implies"].t = "str"
                      THEN <<app["implies"].v>>
                      ELSE app["implies"].v
                 ELSE <<>>
          [] OTHER -> app[k]]

(* the attributes of one pattern string: attrs['string'], attrs['regex'] *)
(* from segment 0, then one key per later segment that holds a colon     *)
RECURSIVE ParseAttrs(_, _, _)
ParseAttrs(pattern, i, attrs) ==
    IF i > Len(pattern) THEN attrs
    ELSE IF i = 1
    THEN ParseAttrs(pattern, 2,
             (S("string") :> pattern[1])
             @@ (S("regex") :> compile_regex(pattern[1], TRUE)))
    ELSE LET attr == split(pattern[i], ":") IN
         IF Len(attr) > 1
         THEN ParseAttrs(pattern, i + 1,
                  (attr[1] :> join(":", Tail(attr))) @@ attrs)
         ELSE ParseAttrs(pattern, i + 1, attrs)

ParsePattern(pattern) == ParseAttrs(split(pattern, "\\;"), 1, <<>>)

ParsePatternList(pattern_value) ==
    LET l == as_list(pattern_value) IN
    [i \in 1..Len(l) |-> ParsePattern(l[i])]

(* parse_patterns *)
parse_patterns(patterns) ==
    IF Falsy(patterns) THEN PyList(<<>>)
    ELSE LET items == IF patterns.t \in {"str", "list"}
                      THEN <<Item(S("main"), PyList(as_list(patterns)))>>
                      ELSE patterns.v
             parsed == [i \in 1..Len(items) |->
                           Item(items[i].k, ParsePatternList(items[i].v))] IN
         IF HasKey(parsed, S("main"))
         THEN PyList(Lookup(parsed, S("main")))
         ELSE PyDict(parsed)

(* parse_apps: the rules of the document, in its order *)
parse_apps(datas) ==
    LET items == IF "apps" \in DOMAIN datas THEN datas.apps ELSE <<>> IN
    [i \in 1..Len(items) |-> parse_app(items[i].k, items[i].v)]

(* iter_apps(key): every rule that has the key, with its parsed group *)
RECURSIVE iter_apps(_, _)
iter_apps(rules, key) ==
    IF rules = <<>> THEN <<>>
    ELSE (IF key \in DOMAIN Head(rules)
          THEN <<[app |-> Head(rules),
                  patterns |-> parse_patterns(Head(rules)[key])]>>
          ELSE <<>>)
         \o iter_apps(Tail(rules), key)

----------------------------------------------------------------------------
(* The state of a Wappylyzer object and of its caller *)

VARIABLES
    apps,           \* self.__apps: the parsed rules, in the document's order
    categories,     \* self.__categories
    heap,           \* the list objects ever created for self.__detected_apps
    detected_apps,  \* self.__detected_apps: the list object it refers to
    pc,             \* where analyze stands
    response,       \* analyze's argument
    scripts,        \* analyze_js's argument: the absolute script URLs
    js_i,           \* analyze_js's position in scripts
    trace,          \* the analyses this pass has entered, in order
    fetched,        \* the script URLs this pass has requested, in order
    calls,          \* the add_detected calls of this pass, in order
    exc,            \* the exception that ended the pass, if any
    returned,       \* what the caller holds: the lists analyze returned
    passes          \* the number of analyze calls made

vars == <<apps, categories, heap, detected_apps, pc, response, scripts, js_i,
          trace, fetched, calls, exc, returned, passes>>

----------------------------------------------------------------------------
(* Registration *)

(* add_detected, lines 131-138: the name under which a match is listed. *)
(* The version is read with Pattern.match, which is anchored at the     *)
(* start of the value.                                                  *)
display_name(app, pattern, value) ==
    IF S("version") \in DOMAIN pattern
    THEN LET rx == pattern[S("regex")]
             matches == re_match(rx, value) IN
         IF matches.ok /\ NGroups(rx.source) > 0 /\ matches.gset
         THEN app.name \o <<" (">> \o Group1(matches, value) \o <<")">>
         ELSE app.name
    ELSE app.name

append_if_absent(detected, name) ==
    IF Contains(detected, name) THEN detected ELSE Append(detected, name)

RECURSIVE add_implies(_, _)
add_implies(detected, implies) ==
    IF implies = <<>> THEN detected
    ELSE add_implies(append_if_absent(detected, Head(implies)), Tail(implies))

(* add_detected with a bug: no membership test before the append *)
add_detected_no_dedup(detected, app, pattern, value) ==
    Append(detected, display_name(app, pattern, value)) \o app.implies

(* add_detected with a bug: the implied rules' own implies are followed *)
add_detected_transitive(detected, app, pattern, value) ==
    LET d == add_implies(
                 append_if_absent(detected, display_name(app, pattern, value)),
                 app.implies)
        second == Concat([i \in 1..Len(apps) |->
                     IF Contains(app.implies, apps[i].name)
                     THEN apps[i].implies ELSE <<>>]) IN
    add_implies(d, second)

(* add_detected: type and key are not read *)
add_detected(detected, app, pattern, value) ==
    add_implies(
        append_if_absent(detected, display_name(app, pattern, value)),
        app.implies)

RECURSIVE register(_, _)
register(detected, cs) ==
    IF cs = <<>> THEN detected
    ELSE register(
             add_detected(detected, Head(cs).app, Head(cs).pattern, Head(cs).value),
             Tail(cs))

----------------------------------------------------------------------------
(* The analyses.  Each gives the add_detected calls it makes, in order, *)
(* and the exception that ends it, if one does.                         *)

Ok(cs) == [calls |-> cs, exc |-> ""]
Raise(e) == [calls |-> <<>>, exc |-> e]

TypeErrorIndex == "TypeError: string indices must be integers"
TypeErrorNone == "TypeError: expected string or bytes-like object"
AttributeErrorItems == "AttributeError: 'list' object has no attribute 'items'"
AttributeErrorKeys == "AttributeError: 'list' object has no attribute 'keys'"
ConnectionError == "requests.exceptions.ConnectionError"

(* a loop whose iterations are rs: it stops at the first that raises *)
RECURSIVE Chain(_)
Chain(rs) ==
    IF rs = <<>> THEN Ok(<<>>)
    ELSE IF Head(rs).exc # "" THEN Head(rs)
    ELSE LET rest == Chain(Tail(rs)) IN
         [calls |-> Head(rs).calls \o rest.calls, exc |-> rest.exc]

Call(app, pattern, type, value, key) ==
    [app |-> app, pattern |-> pattern, type |-> type, value |-> value, key |-> key]

Searches(pattern, value) == re_search(pattern[S("regex")], value).ok

(* the pattern loop with a bug: it stops at the first pattern that matches *)
match_patterns_first_only(app, patterns, type, value, key) ==
    IF \E i \in 1..Len(patterns) : Searches(patterns[i], value)
    THEN LET k == CHOOSE i \in 1..Len(patterns) :
                      /\ Searches(patterns[i], value)
                      /\ \A j \in 1..(i - 1) : ~Searches(patterns[j], value) IN
         <<Call(app, patterns[k], type, value, key)>>
    ELSE <<>>

(* for pattern in patterns: if pattern['regex'].search(value): add_detected *)
match_patterns(app, patterns, type, value, key) ==
    LET Hit(p) == Searches(p, value)
        hits == SelectSeq(patterns, Hit) IN
    [i \in 1..Len(hits) |-> Call(app, hits[i], type, value, key)]

(* the same loop where the group may be a dict: iterating a dict gives its *)
(* keys, and a key is a str, which pattern['regex'] cannot index           *)
flat_patterns(app, patterns, type, value) ==
    IF patterns.t = "dict"
    THEN Raise(TypeErrorIndex)
    ELSE Ok(match_patterns(app, patterns.v, type, value, <<>>))

analyze_url(url) ==
    LET it == iter_apps(apps, "url") IN
    Chain([a \in 1..Len(it) |->
        flat_patterns(it[a].app, it[a].patterns, "url", url)])

analyze_html(html) ==
    LET it == iter_apps(apps, "html") IN
    Chain([a \in 1..Len(it) |->
        flat_patterns(it[a].app, it[a].patterns, "html", html)])

analyze_scripts(uris) ==
    LET it == iter_apps(apps, "script") IN
    Chain([a \in 1..Len(it) |->
        Chain([u \in 1..Len(uris) |->
            flat_patterns(it[a].app, it[a].patterns, "script", uris[u])])])

analyze_cookies(cookies) ==
    LET it == iter_apps(apps, "cookies") IN
    Chain([a \in 1..Len(it) |->
        LET cookies_patterns == it[a].patterns IN
        IF cookies_patterns.t = "list" THEN Raise(AttributeErrorItems)
        ELSE Chain([n \in 1..Len(cookies_patterns.v) |->
                 LET cookie_name == cookies_patterns.v[n].k IN
                 IF cookie_name \in DOMAIN cookies
                 THEN Ok(match_patterns(it[a].app, cookies_patterns.v[n].v,
                          "cookies", cookies[cookie_name], cookie_name))
                 ELSE Ok(<<>>)])])

analyze_headers(headers) ==
    LET it == iter_apps(apps, "headers") IN
    Chain([a \in 1..Len(it) |->
        LET headers_patterns == it[a].patterns IN
        IF headers_patterns.t = "list" THEN Raise(AttributeErrorItems)
        ELSE Chain([n \in 1..Len(headers_patterns.v) |->
                 LET header_name == headers_patterns.v[n].k IN
                 IF header_name \in DOMAIN headers
                 THEN Ok(match_patterns(it[a].app, headers_patterns.v[n].v,
                          "headers", headers[header_name], header_name))
                 ELSE Ok(<<>>)])])

(* attrs.get(name, '') *)
AttrOrEmpty(attrs, name) == IF name \in DOMAIN attrs THEN attrs[name] ELSE <<>>

(* analyze_meta: a tag without content gives meta_content = None, which *)
(* Pattern.search rejects                                               *)
analyze_meta(tags) ==
    LET it == iter_apps(apps, "meta") IN
    Chain([a \in 1..Len(it) |->
        Chain([g \in 1..Len(tags) |->
            LET meta_patterns == it[a].patterns
                meta_name == lower(AttrOrEmpty(tags[g], S("name")))
                meta_property == lower(AttrOrEmpty(tags[g], S("property"))) IN
            IF meta_name # <<>> \/ meta_property # <<>>
            THEN IF meta_patterns.t = "list" THEN Raise(AttributeErrorItems)
                 ELSE Chain([n \in 1..Len(meta_patterns.v) |->
                          LET meta_pattern_name == meta_patterns.v[n].k
                              patterns == meta_patterns.v[n].v IN
                          IF meta_pattern_name \in {meta_name, meta_property}
                          THEN IF S("content") \in DOMAIN tags[g]
                               THEN Ok(match_patterns(it[a].app, patterns, "meta",
                                        tags[g][S("content")], meta_pattern_name))
                               ELSE IF Len(patterns) > 0
                                    THEN Raise(TypeErrorNone)
                                    ELSE Ok(<<>>)
                          ELSE Ok(<<>>)])
            ELSE Ok(<<>>)])])

(* the guard of analyze_js: the sub-key is pasted into the source as it is *)
global_variable(pattern_name) ==
    compile_regex(<<"(window|document)", "\\.">> \o pattern_name \o <<" ", "*?", "=">>,
                  FALSE)

(* analyze_js, lines 231-237: one fetched body against the js groups.  The *)
(* call's key records the sub-key whose patterns matched.                  *)
analyze_js_body(js) ==
    LET it == iter_apps(apps, "js") IN
    Chain([a \in 1..Len(it) |->
        LET patterns == it[a].patterns IN
        IF patterns.t = "list" THEN Raise(AttributeErrorKeys)
        ELSE Chain([n \in 1..Len(patterns.v) |->
                 LET pattern_name == patterns.v[n].k IN
                 IF re_search(global_variable(pattern_name), js).ok
                 THEN Ok(match_patterns(it[a].app, patterns.v[n].v, "js", js,
                          pattern_name))
                 ELSE Ok(<<>>)])])

----------------------------------------------------------------------------
(* The rule documents and the responses explored *)

EmptyDict == [x \in {} |-> x]

VersionOne == <<"\\;", "version", ":", "\\1">>

WordPressVersion == <<"WordPress", " ", "(", "[0-9.]", "+", ")">> \o VersionOne

(* A implies B, B implies C; Self implies itself; M1 and M2 imply each *)
(* other; WordPress has two html patterns that match the same text;    *)
(* Emp's group may capture the empty text; Foo is keyed on a JS global *)
CorpusTech ==
    [categories |-> <<Item(S("1"), S("CMS"))>>,
     apps |-> <<
        Item(S("A"), [url |-> PyStr(S("a-site")), implies |-> PyStr(S("B"))]),
        Item(S("B"), [html |-> PyStr(S("b-mark")), implies |-> PyList(<<S("C")>>)]),
        Item(S("C"), [script |-> PyList(<<S("c.js")>>)]),
        Item(S("Self"), [headers |-> PyDict(<<Item(S("X-Self"), PyStr(<<>>))>>),
                         implies |-> PyList(<<S("Self")>>)]),
        Item(S("M1"), [cookies |-> PyDict(<<Item(S("sid"), PyStr(S("m")))>>),
                       implies |-> PyList(<<S("M2")>>)]),
        Item(S("M2"), [cookies |-> PyDict(<<Item(S("sid"), PyList(<<S("n")>>))>>),
                       implies |-> PyStr(S("M1"))]),
        Item(S("WordPress"),
             [html |-> PyList(<<WordPressVersion, S("wordpress")>>),
              meta |-> PyDict(<<Item(S("generator"), PyStr(WordPressVersion))>>)]),
        Item(S("nginx"),
             [headers |-> PyDict(<<Item(S("Server"),
                  PyStr(<<"nginx", "/", "(", "[0-9.]", "+", ")">> \o VersionOne))>>),
              implies |-> PyList(<<S("Unix")>>)]),
        Item(S("Emp"),
             [url |-> PyStr(<<"https://", "e", "(", "[0-9.]", "*", ")">> \o VersionOne)]),
        Item(S("Foo"),
             [js |-> PyDict(<<Item(<<"foo", ".", "bar">>,
                  PyStr(<<"v", "(", "[0-9.]", "+", ")">> \o VersionOne))>>)])
     >>]

(* groups of unusual shape: a flat js group, an empty meta group, a     *)
(* cookies group with a cookie named main, the same html pattern as a   *)
(* str and as a list, a pattern that does not compile                   *)
CorpusShapes ==
    [apps |-> <<
        Item(S("F"), [js |-> PyStr(S("flat"))]),
        Item(S("H"), [meta |-> PyDict(<<>>)]),
        Item(S("K"), [cookies |-> PyDict(<<Item(S("main"), PyStr(S("m"))),
                                           Item(S("sid"), PyStr(S("m")))>>)]),
        Item(S("G1"), [html |-> PyStr(S("Foo") \o VersionOne)]),
        Item(S("G2"), [html |-> PyList(<<S("Foo") \o VersionOne>>)]),
        Item(S("Bad"), [url |-> PyStr(<<"(">>), implies |-> PyStr(S("K"))])
     >>]

(* a url group and a script group that are keyed *)
CorpusKeyedUrl ==
    [apps |-> <<
        Item(S("U"), [url |-> PyDict(<<Item(S("x"), PyStr(S("a-site")))>>),
                      script |-> PyDict(<<Item(S("y"), PyStr(S("c.js")))>>)])
     >>]

Corpora == <<CorpusTech, CorpusShapes, CorpusKeyedUrl>>

Origin == <<"https://", "h", "/">>

(* the script bodies of the web; dead.js cannot be fetched *)
DeadUrls == {Origin \o S("dead.js")}

WebText(url) ==
    CASE url = Origin \o S("c.js") ->
             <<"window", ".", "foo", ".", "bar", " ", "=", "v", "1", ".", "2">>
      [] url = Origin \o S("x.js") ->
             <<"window", ".", "foo", "x", "bar", "=", "v", "5">>
      [] url = <<"https://", "cdn", "/", "t.js">> ->
             <<"foo", ".", "bar", " ", "v", "9">>
      [] OTHER -> <<>>

Tag(name, value) == name :> value

Response(url, text, html, script, meta, headers, cookies) ==
    [url |-> url, request_url |-> Origin, text |-> text,
     doc |-> [html |-> html, script |-> script, meta |-> meta],
     headers |-> headers, cookies |-> cookies]

NoResponse == Response(<<>>, <<>>, FALSE, <<>>, <<>>, EmptyDict, EmptyDict)

Responses == <<
    \* a JSON payload that still carries a script element
    Response(Origin \o S("a-site"), <<"{", "}">>, FALSE,
             <<Tag(S("src"), S("c.js"))>>, <<>>,
             Tag(S("Server"), <<"nginx", "/", "1", ".", "8">>), EmptyDict),
    \* a page whose text starts with the WordPress signature, at a URL that
    \* leaves Emp's group empty
    Response(<<"https://", "e">>, <<"WordPress", " ", "5", ".", "9", "<html>">>, TRUE,
             <<>>,
             <<Tag(S("name"), S("Generator"))
               @@ Tag(S("content"), <<"WordPress", " ", "5", ".", "9">>)>>,
             Tag(S("X-Self"), S("1")), Tag(S("sid"), S("m"))),
    \* the signature further into the text; one script without src
    Response(Origin, <<"<html>", "b-mark", "WordPress", " ", "5", ".", "9">>, TRUE,
             <<EmptyDict, Tag(S("src"), S("c.js")),
               Tag(S("src"), <<"https://", "cdn", "/", "t.js">>)>>,
             <<Tag(S("property"), S("generator"))
               @@ Tag(S("content"), <<"x", "WordPress", " ", "5">>)>>,
             EmptyDict, Tag(S("sid"), S("n"))),
    \* the first of two scripts cannot be fetched
    Response(Origin \o S("a-site"), <<"<html>">>, TRUE,
             <<Tag(S("src"), S("dead.js")), Tag(S("src"), S("c.js"))>>, <<>>,
             Tag(S("Server"), <<"nginx", "/", "1", ".", "8">>), EmptyDict),
    \* a generator tag without content
    Response(<<"https://", "e">>, <<"<html>", "b-mark">>, TRUE,
             <<>>,
             <<Tag(S("charset"), S("utf-8")), Tag(S("name"), S("generator"))>>,
             EmptyDict, Tag(S("sid"), S("m"))),
    \* a script that assigns window.fooxbar
    Response(<<"https://", "e", "1", ".", "2">>, <<"<html>">>, TRUE,
             <<Tag(S("src"), S("x.js")), Tag(S("src"), S("x.js"))>>, <<>>,
             Tag(S("X-Self"), <<>>), Tag(S("main"), S("m")))
>>

(* requests.get: the body, or ConnectionError *)
request_url(url) ==
    IF url \in DeadUrls THEN [ok |-> FALSE, text |-> <<>>]
    ELSE [ok |-> TRUE, text |-> WebText(url)]

(* is_html_document(html): bool(html.find('html')) *)
is_html_document(html) == html.html

(* get_scripts: the src of the script elements that have a non-empty one *)
get_scripts(html) ==
    LET HasSrc(attrs) == S("src") \in DOMAIN attrs /\ attrs[S("src")] # <<>>
        with_src == SelectSeq(html.script, HasSrc) IN
    [i \in 1..Len(with_src) |-> with_src[i][S("src")]]

get_meta_tags(html) == html.meta

(* analyze_js, lines 228-230 and on: one script is fetched and analyzed *)
analyze_js_script(script) ==
    LET res == request_url(script) IN
    IF res.ok THEN analyze_js_body(res.text) ELSE Raise(ConnectionError)

analyze_js(urls) ==
    Chain([i \in 1..Len(urls) |-> analyze_js_script(urls[i])])

----------------------------------------------------------------------------
(* analyze, step by step *)

(* the number of analyze calls made on one object *)
MaxPasses == 2

(* analyze, line 158, with a bug: the list is kept from the pass before *)
reset_keeps_list(h, ref) == [heap |-> h, ref |-> ref]

(* analyze, line 158: self.__detected_apps = [] binds a new list object *)
reset(h, ref) == [heap |-> Append(h, <<>>), ref |-> Len(h) + 1]

(* analyze with a bug: meta tags are analyzed after the url *)
plan_url_before_meta(markup) ==
    (IF markup THEN <<"html", "script", "js">> ELSE <<>>)
    \o <<"url", "meta", "headers", "cookies">>

(* analyze, lines 163-174: the analyses of a pass, in order *)
plan(markup) ==
    (IF markup THEN <<"html", "script", "js", "meta">> ELSE <<>>)
    \o <<"url", "headers", "cookies">>

(* the statement that follows an analysis *)
after(phase) ==
    LET p == plan(is_html_document(response.doc))
        k == CHOOSE i \in 1..Len(p) : p[i] = phase IN
    IF k = Len(p) THEN "return" ELSE p[k + 1]

(* analyze, lines 158-176, as a function: what a pass on a new object *)
(* gives for a response, and whether it raises                        *)
analyze_pass(resp) ==
    LET html == resp.doc
        uris == get_scripts(html)
        markup == IF is_html_document(html)
                  THEN <<analyze_html(resp.text),
                         analyze_scripts(uris),
                         analyze_js(get_absolute_url(resp.request_url, uris)),
                         analyze_meta(get_meta_tags(html))>>
                  ELSE <<>>
        ran == Chain(markup \o <<analyze_url(resp.url),
                                 analyze_headers(resp.headers),
                                 analyze_cookies(resp.cookies)>>) IN
    [detected |-> register(<<>>, ran.calls), exc |-> ran.exc]

(* __init__: an empty list of detections, and the rules parsed *)
Init ==
    /\ \E c \in 1..Len(Corpora) :
           /\ apps = parse_apps(Corpora[c])
           /\ categories = IF "categories" \in DOMAIN Corpora[c]
                           THEN Corpora[c].categories ELSE <<>>
    /\ heap = << <<>> >>
    /\ detected_apps = 1
    /\ pc = "idle"
    /\ response = NoResponse
    /\ scripts = <<>>
    /\ js_i = 1
    /\ trace = <<>>
    /\ fetched = <<>>
    /\ calls = <<>>
    /\ exc = ""
    /\ returned = <<>>
    /\ passes = 0

(* analyze, lines 158-165: a new pass on some response *)
Analyze ==
    /\ pc \in {"idle", "raised"}
    /\ passes < MaxPasses
    /\ \E r \in 1..Len(Responses) :
           /\ response' = Responses[r]
           /\ scripts' = IF is_html_document(Responses[r].doc)
                         THEN get_scripts(Responses[r].doc) ELSE <<>>
           /\ pc' = plan(is_html_document(Responses[r].doc))[1]
    /\ LET fresh == reset(heap, detected_apps) IN
           /\ heap' = fresh.heap
           /\ detected_apps' = fresh.ref
    /\ js_i' = 1
    /\ trace' = <<>>
    /\ fetched' = <<>>
    /\ calls' = <<>>
    /\ exc' = ""
    /\ passes' = passes + 1
    /\ UNCHANGED <<apps, categories, returned>>

(* one analysis has run: its calls have registered, and it has either *)
(* raised out of analyze or handed over to the next statement         *)
Ran(phase, result) ==
    /\ heap' = [heap EXCEPT ![detected_apps] = register(@, result.calls)]
    /\ calls' = calls \o result.calls
    /\ trace' = Append(trace, phase)
    /\ IF result.exc # ""
       THEN pc' = "raised" /\ exc' = result.exc
       ELSE pc' = after(phase) /\ exc' = exc
    /\ UNCHANGED <<apps, categories, detected_apps, response, scripts, js_i,
                   fetched, returned, passes>>

AnalyzeHtml ==
    /\ pc = "html"
    /\ Ran("html", analyze_html(response.text))

AnalyzeScripts ==
    /\ pc = "script"
    /\ Ran("script", analyze_scripts(scripts))

(* analyze_js: one turn of its loop over the script URLs, the request *)
(* included; with no script it returns at once                        *)
AnalyzeJs ==
    /\ pc = "js"
    /\ LET urls == get_absolute_url(response.request_url, scripts)
           result == IF js_i <= Len(urls)
                     THEN analyze_js_script(urls[js_i]) ELSE Ok(<<>>) IN
           /\ heap' = [heap EXCEPT ![detected_apps] = register(@, result.calls)]
           /\ calls' = calls \o result.calls
           /\ trace' = IF js_i = 1 THEN Append(trace, "js") ELSE trace
           /\ fetched' = IF js_i <= Len(urls)
                         THEN Append(fetched, urls[js_i]) ELSE fetched
           /\ IF result.exc # ""
              THEN pc' = "raised" /\ exc' = result.exc /\ js_i' = js_i
              ELSE IF js_i < Len(urls)
              THEN pc' = pc /\ exc' = exc /\ js_i' = js_i + 1
              ELSE pc' = after("js") /\ exc' = exc /\ js_i' = js_i
    /\ UNCHANGED <<apps, categories, detected_apps, response, scripts,
                   returned, passes>>

AnalyzeMeta ==
    /\ pc = "meta"
    /\ Ran("meta", analyze_meta(get_meta_tags(response.doc)))

AnalyzeUrl ==
    /\ pc = "url"
    /\ Ran("url", analyze_url(response.url))

AnalyzeHeaders ==
    /\ pc = "headers"
    /\ Ran("headers", analyze_headers(response.headers))

AnalyzeCookies ==
    /\ pc = "cookies"
    /\ Ran("cookies", analyze_cookies(response.cookies))

(* analyze, line 176: the caller receives the list object itself *)
Return ==
    /\ pc = "return"
    /\ returned' = Append(returned,
           [ref |-> detected_apps, value |-> heap[detected_apps],
            response |-> response])
    /\ pc' = "idle"
    /\ UNCHANGED <<apps, categories, heap, detected_apps, response, scripts,
                   js_i, trace, fetched, calls, exc, passes>>

Next ==
    \/ Analyze
    \/ AnalyzeHtml
    \/ AnalyzeScripts
    \/ AnalyzeJs
    \/ AnalyzeMeta
    \/ AnalyzeUrl
    \/ AnalyzeHeaders
    \/ AnalyzeCookies
    \/ Return

Spec == Init /\ [][Next]_vars

----------------------------------------------------------------------------
(* The properties *)

IsPrefix(s, t) == Len(s) <= Len(t) /\ SubSeq(t, 1, Len(s)) = s

Detected == heap[detected_apps]

Versioned(name, version) == name \o <<" (">> \o version \o <<")">>

Displayed(c) == display_name(c.app, c.pattern, c.value)

(* C1: when the request for one script fails, the pass does not end in an *)
(* exception: the other scripts and the meta, url, headers and cookies    *)
(* analyses still run and analyze returns.                                *)
C1_FetchFailureContained ==
    (\E i \in 1..Len(fetched) : ~request_url(fetched[i]).ok) => pc # "raised"

(* C2: no list of detections, the current one or one already returned,   *)
(* holds a display name twice, whatever add_detected calls have been     *)
(* made; every call's display name is in the list under its full string, *)
(* so a name and the same name with a version are two entries.           *)
C2_NoDuplicateNames ==
    /\ \A k \in 1..Len(heap) : NoDuplicates(heap[k])
    /\ \A i \in 1..Len(calls) : Contains(Detected, Displayed(calls[i]))

(* a pass that made the same add_detected call twice and registered a   *)
(* rule that implies itself, after a pass that listed WordPress with and *)
(* without its version                                                   *)
C2_Witness ==
    /\ pc = "return"
    /\ \E i, j \in 1..Len(calls) : i < j /\ calls[i] = calls[j]
    /\ \E i \in 1..Len(calls) :
           Contains(calls[i].app.implies, calls[i].app.name)
    /\ \E r \in 1..Len(returned) :
           /\ Contains(returned[r].value, S("WordPress"))
           /\ Contains(returned[r].value,
                       Versioned(S("WordPress"), <<"5", ".", "9">>))

(* C3: every name in the list of detections is the display name of a    *)
(* rule one of whose patterns matched in this pass, or is listed in the *)
(* implies of such a rule; what an implied rule implies is not added.   *)
C3_ImplicationOneLevel ==
    /\ \A i \in 1..Len(calls) : Searches(calls[i].pattern, calls[i].value)
    /\ \A n \in 1..Len(Detected) :
           \E i \in 1..Len(calls) :
               \/ Detected[n] = Displayed(calls[i])
               \/ Contains(calls[i].app.implies, Detected[n])

(* only A matched: A and the B it implies are listed, the C that B      *)
(* implies is not; an earlier pass registered a rule that implies       *)
(* itself and two rules that imply each other                           *)
C3_Witness ==
    /\ pc = "return"
    /\ Contains(Detected, S("A"))
    /\ Contains(Detected, S("B"))
    /\ ~Contains(Detected, S("C"))
    /\ \E a \in 1..Len(apps) :
           apps[a].name = S("B") /\ Contains(apps[a].implies, S("C"))
    /\ \A i \in 1..Len(calls) : calls[i].app.name \notin {S("B"), S("C")}
    /\ \E r \in 1..Len(returned) :
           /\ Contains(returned[r].value, S("Self"))
           /\ Contains(returned[r].value, S("M1"))
           /\ Contains(returned[r].value, S("M2"))

(* C4: a pass starts from an empty list; the list a pass returned is    *)
(* what a pass on a new object gives for the same response, it is not   *)
(* changed by later passes, and no two passes share a list object.      *)
C4_NoCrossPassState ==
    /\ (pc \notin {"idle", "raised"} /\ trace = <<>>) => Detected = <<>>
    /\ \A r \in 1..Len(returned) :
           /\ heap[returned[r].ref] = returned[r].value
           /\ returned[r].value = analyze_pass(returned[r].response).detected
           /\ pc \notin {"idle", "return"} => returned[r].ref # detected_apps
    /\ \A r, q \in 1..Len(returned) :
           returned[r].ref = returned[q].ref => r = q

(* two passes on different responses have returned different, non-empty *)
(* results                                                              *)
C4_Witness ==
    /\ Len(returned) = 2
    /\ returned[1].value # <<>>
    /\ returned[2].value # <<>>
    /\ returned[1].response # returned[2].response
    /\ returned[1].value # returned[2].value

(* C5: for every add_detected call whose pattern declares a version: if *)
(* group 1 of the pattern's match found by search captured non-empty    *)
(* text, the call registers the rule name followed by that text in      *)
(* parentheses; if the group is absent or empty, it registers the bare  *)
(* rule name.                                                           *)
C5_VersionFromSearch ==
    \A i \in 1..Len(calls) :
        LET c == calls[i]
            rx == c.pattern[S("regex")]
            m == re_search(rx, c.value) IN
        S("version") \in DOMAIN c.pattern =>
            IF NGroups(rx.source) > 0 /\ m.gset /\ Group1(m, c.value) # <<>>
            THEN Displayed(c) = Versioned(c.app.name, Group1(m, c.value))
            ELSE Displayed(c) = c.app.name

(* window.<path> = or document.<path> =, the path taken literally *)
HasAssignment(js, path) ==
    \E i \in 1..Len(js) :
        /\ js[i] \in {"window", "document"}
        /\ i + 1 + Len(path) <= Len(js)
        /\ js[i + 1] = "."
        /\ SubSeq(js, i + 2, i + 1 + Len(path)) = path
        /\ \E j \in (i + 2 + Len(path))..Len(js) :
               /\ js[j] = "="
               /\ \A k \in (i + 2 + Len(path))..(j - 1) : js[k] = " "

(* C6: a js detection for a sub-key is made only on a body that assigns *)
(* window.<path> or document.<path>, the path being the sub-key taken   *)
(* literally.                                                           *)
C6_JsGuardLiteral ==
    \A i \in 1..Len(calls) :
        calls[i].type = "js" => HasAssignment(calls[i].value, calls[i].key)

(* C7: a meta tag without content does not end the pass in an exception: *)
(* analyze_meta completes and the url, headers and cookies analyses      *)
(* follow.                                                               *)
C7_MetaWithoutContent ==
    (\E g \in 1..Len(response.doc.meta) :
         S("content") \notin DOMAIN response.doc.meta[g])
    => ~(pc = "raised" /\ trace[Len(trace)] = "meta" /\ exc = TypeErrorNone)

(* the patterns of the add_detected calls made for a rule, a signal kind *)
(* and a sub-key, in the order of the calls                              *)
PatternsCalled(name, type, key) ==
    LET Mine(c) == c.app.name = name /\ c.type = type /\ c.key = key
        mine == SelectSeq(calls, Mine) IN
    [i \in 1..Len(mine) |-> mine[i].pattern]

(* the patterns of a group that match a value, in the group's order *)
PatternsMatching(patterns, value) ==
    LET Hit(p) == re_search(p[S("regex")], value).ok IN
    SelectSeq(patterns, Hit)

(* the analysis of a signal kind has run to its end in this pass *)
Completed(type) ==
    /\ Contains(trace, type)
    /\ ~(pc = "raised" /\ trace[Len(trace)] = type)

(* the one candidate of the pass for a signal kind and a sub-key *)
Candidate(type, key) ==
    CASE type = "url" -> response.url
      [] type = "html" -> response.text
      [] type = "headers" -> response.headers[key]
      [] type = "cookies" -> response.cookies[key]

ScriptUrls == get_absolute_url(response.request_url, get_scripts(response.doc))

SubKeys(patterns) ==
    IF patterns.t \in {"str", "list"} THEN <<S("main")>> ELSE Keys(patterns.v)

(* C10: for every group the analyses of this pass have asked iter_apps  *)
(* for, parse_patterns returns a list exactly when main is the only     *)
(* sub-key after normalization; otherwise it returns a mapping that     *)
(* holds every sub-key of the input, each with one pattern per pattern  *)
(* string, in order.                                                    *)
C10_ListOnlyForMain ==
    \A a \in 1..Len(apps) :
        \A key \in DOMAIN apps[a] \cap Range(trace) :
            LET input == apps[a][key]
                group == parse_patterns(input) IN
            /\ group.t = "list" <=> SubKeys(input) = <<S("main")>>
            /\ group.t = "dict" =>
                   /\ Keys(group.v) = SubKeys(input)
                   /\ \A n \in 1..Len(group.v) :
                          Len(group.v[n].v) = Len(as_list(input.v[n].v))
====
